---- MODULE Spec2Model ----
(***************************************************************************)
(* A model of the LLM client of sutra-trans-playground                     *)
(* (llm_client.py, with the callers main.py and app.py).                   *)
(*                                                                         *)
(* Conventions                                                             *)
(*   - a Python value that may be None is a sequence: << >> is None and    *)
(*     <<v>> is the value v;                                               *)
(*   - a JSON object / Python dict is a TLA+ record whose DOMAIN is the    *)
(*     set of keys present;                                                *)
(*   - response text is a TLA+ string, built with \o as Python builds it   *)
(*     with += and f-strings;                                              *)
(*   - a received line is [lead, prefix, body]: whether it starts with     *)
(*     whitespace, whether the text "data: " comes next, and what follows. *)
(***************************************************************************)
EXTENDS Integers, Sequences, FiniteSets, TLC

VARIABLES
    api_type,     \* self.api_type of the client serving the call
    op,           \* the public method invoked: search, stream_search, ...
    stream,       \* the stream argument of search / get_full_response
    save_raw_json,\* the save_raw_json argument of get_full_response
    pc,           \* idle, sent, streaming, done, failed
    requests,     \* HTTP requests issued by this invocation
    transport,    \* how the HTTP exchange went: none, ok, status_error, ...
    conn,         \* the lines read from the response so far
    ended,        \* how the loop over the lines ended: no, break, eof, ...
    delivered,    \* what the generator has yielded to its consumer, in order
    full_text,    \* get_full_response's accumulator
    references,   \* get_full_response's references local
    body,         \* the JSON document search() returned, << >> if none
    result,       \* the text get_full_response returned, << >> if none
    error,        \* the exception raised to the caller, << >> if none
    metaso_params,       \* self.metaso_params of the client
    caller,              \* who calls the client: library, web (app.py), cli (main.py)
    prompt,              \* the prompt of the call, a sequence of characters
    call_opts,           \* the options the call supplies, << >> where it supplies none
    default_temperature, \* default_temperature of the caller's profile
    built_by,            \* the method that built the payload, none before
    payload,             \* the payload handed to httpx, << >> if none
    env,          \* the environment: variable name -> value, << >> if unset
    profile,      \* the profile the client is requested for, << >> if none
    ctor_kwargs,  \* the keyword arguments of the last LLMClient(...) call
    client,       \* the constructed client, << >> if none
    ctor_error,   \* the exception LLMClient(...) raised, << >> if none
    http_log,     \* the HTTP requests issued with the client, in order
    stderr_log,   \* the request details printed to stderr, in order
    disk_log,     \* the request details saved to http_request_*.json files
    client_cache, \* app.py: cache key -> the client cached under it
    chats,        \* the /api/chat requests handled so far
    request,      \* the body of the last /api/chat request, << >> if none
    response,     \* the answer to the last /api/chat request, << >> if none
    served,       \* the profile last requested and the client that served it
    fmt_list,     \* the reference list handed to the formatting
    fmt_path,     \* the branch that formatted it: none, streaming, buffered
    fmt_block     \* the text get_full_response made of it, << >> if none

callVars == <<api_type, op, stream, save_raw_json, pc, requests, transport,
              conn, ended, delivered, full_text, references, body, result, error>>

payloadVars == <<metaso_params, caller, prompt, call_opts, default_temperature,
                 built_by, payload>>

clientVars == <<env, profile, ctor_kwargs, client, ctor_error, http_log,
                stderr_log, disk_log>>

webVars == <<client_cache, chats, request, response, served>>

fmtVars == <<fmt_list, fmt_path, fmt_block>>

vars == <<callVars, payloadVars, clientVars, webVars, fmtVars>>

(***************************************************************************)
(* Bounds of the model.                                                    *)
(***************************************************************************)
MaxLines == 3
\* how far beyond the limit of the question field the longest prompt goes
MaxOver == 2
\* the requests issued with one client
MaxRequests == 2
\* the /api/chat requests one run of the server handles
MaxChats == 2
\* the entries of a reference list
MaxRefs == 2

(***************************************************************************)
(* Python helpers.                                                         *)
(***************************************************************************)
\* dict.get(key, default)
Get(d, k, default) == IF k \in DOMAIN d THEN d[k] ELSE default

\* str(x) of a value that is an int or None, as an f-string formats it
PyStr(x) == IF x = << >> THEN "None" ELSE ToString(x[1])

\* str(x) of a value that is a str or None
PyStrOf(x) == IF x = << >> THEN "None" ELSE x[1]

\* sep.join(parts)
RECURSIVE Join(_, _)
Join(parts, sep) ==
    IF parts = << >> THEN ""
    ELSE IF Len(parts) = 1 THEN parts[1]
    ELSE parts[1] \o sep \o Join(Tail(parts), sep)

\* {} : the dict without keys
EmptyDict == [k \in {} |-> TRUE]

\* message.get("type") of a message without the key is None, which equals
\* none of the type names; the empty string stands for it
NoType == ""

(***************************************************************************)
(* Lines of a streamed response.                                           *)
(***************************************************************************)
Line(lead, prefix, b) == [lead |-> lead, prefix |-> prefix, body |-> b]
Plain(b) == Line(FALSE, FALSE, b)
Data(b) == Line(FALSE, TRUE, b)
Indented(b) == Line(TRUE, TRUE, b)
Padded(b) == Line(TRUE, FALSE, b)

Blank == [kind |-> "blank"]
DoneMarker == [kind |-> "done"]
Noise == [kind |-> "noise"]
ErrText == [kind |-> "errtext", text |-> "ERROR: upstream"]
JsonObject(o) == [kind |-> "json", jtype |-> "object", obj |-> o]
JsonNumber == [kind |-> "json", jtype |-> "number"]
JsonString == [kind |-> "json", jtype |-> "string"]

\* not line.strip()
IsBlank(line) == ~line.prefix /\ line.body.kind = "blank"

\* if line.startswith("data: "): line = line[6:]
StripDataPrefix(line) ==
    IF ~line.lead /\ line.prefix THEN [line EXCEPT !.prefix = FALSE] ELSE line

\* line.strip() == "[DONE]"
IsDoneMarker(line) == ~line.prefix /\ line.body.kind = "done"

\* json.loads(line) succeeds (surrounding whitespace is accepted, any other
\* text before the document is not)
JsonLoads(line) == ~line.prefix /\ line.body.kind = "json"

\* line.strip().startswith("ERROR:")
StartsWithError(line) == ~line.prefix /\ line.body.kind = "errtext"

(***************************************************************************)
(* The messages of the search provider and the chunks of the chat          *)
(* provider that the model receives.                                       *)
(***************************************************************************)
RefA == [index |-> 1, title |-> "A", link |-> "http://a"]
RefB == [index |-> 2, title |-> "B", link |-> "http://b"]

EvHeartbeat == [type |-> "heartbeat"]
EvQuery == [type |-> "query", data |-> <<"k1", "k2">>]
EvRefs1 == [type |-> "set-reference", list |-> <<RefA>>]
EvRefs2 == [type |-> "set-reference", list |-> <<RefB, RefA>>]
EvTextA == [type |-> "append-text", text |-> "a"]
EvTextB == [type |-> "append-text", text |-> "b"]
EvError == [type |-> "error", code |-> <<7>>, msg |-> "bad"]

SearchLines ==
    {Plain(Blank), Plain(DoneMarker), Data(DoneMarker), Indented(DoneMarker),
     Padded(DoneMarker), Plain(Noise), Plain(ErrText), Data(ErrText),
     Plain(JsonNumber)}
    \cup {Plain(JsonObject(e)) :
            e \in {EvHeartbeat, EvQuery, EvRefs1, EvRefs2, EvTextA, EvError}}
    \cup {Data(JsonObject(e)) : e \in {EvTextB, EvError}}
    \cup {Indented(JsonObject(EvTextB))}

ChunkA == [choices |-> <<[delta |-> [content |-> "a"]]>>]
ChunkRole == [choices |-> <<[delta |-> [role |-> "assistant"]]>>, content |-> "c"]
ChunkEmpty == [choices |-> << >>, content |-> "d"]
ChunkAlt == [content |-> "b"]
ChunkOther == [id |-> "x"]

ChatLines ==
    {Plain(Blank), Plain(DoneMarker), Data(DoneMarker), Indented(DoneMarker),
     Padded(DoneMarker), Plain(Noise), Plain(JsonNumber), Plain(JsonString)}
    \cup {Data(JsonObject(c)) : c \in {ChunkA, ChunkRole, ChunkEmpty, ChunkAlt, ChunkOther}}
    \cup {Plain(JsonObject(ChunkAlt)), Indented(JsonObject(ChunkA))}

(***************************************************************************)
(* stream_search: what one iteration of the loop over response.iter_lines  *)
(* does with a line.  The result is continue, break, yield (with the       *)
(* message) or crash (an exception the loop does not catch).               *)
(***************************************************************************)
\* SearchOnDecodeError, ending the loop on a line that is no JSON
SearchOnDecodeError_break(line) ==
    IF StartsWithError(line)
    THEN [act |-> "yield",
          ev |-> [type |-> "error", msg |-> line.body.text, code |-> << >>]]
    ELSE [act |-> "break"]

\* SearchOnDecodeError, discarding every line that is no JSON
SearchOnDecodeError_discard(line) == [act |-> "continue"]

\* except json.JSONDecodeError: ...
SearchOnDecodeError(line) ==
    IF StartsWithError(line)
    THEN [act |-> "yield",
          ev |-> [type |-> "error", msg |-> line.body.text, code |-> << >>]]
    ELSE [act |-> "continue"]

\* data = json.loads(line); data.get("type") ...; yield data
SearchOnJson(line) ==
    IF line.body.jtype # "object"
    THEN [act |-> "crash", exc |-> "AttributeError"]
    ELSE IF Get(line.body.obj, "type", NoType) = "heartbeat"
    THEN [act |-> "continue"]
    ELSE [act |-> "yield", ev |-> line.body.obj]

\* SearchOnDone, going on to the next line
SearchOnDone_continue(line) == [act |-> "continue"]

\* if line.strip() == "[DONE]": break
SearchOnDone(line) == [act |-> "break"]

StreamSearchStep(line) ==
    IF IsBlank(line) THEN [act |-> "continue"]
    ELSE LET l == StripDataPrefix(line) IN
         IF IsDoneMarker(l) THEN SearchOnDone(l)
         ELSE IF JsonLoads(l) THEN SearchOnJson(l)
         ELSE SearchOnDecodeError(l)

(***************************************************************************)
(* stream_completion: one iteration of its loop.                           *)
(***************************************************************************)
\* the body of the try block, for a parsed document
CompletionOnJson(line) ==
    IF line.body.jtype = "number"
    THEN [act |-> "crash", exc |-> "TypeError"]
    ELSE IF line.body.jtype = "string"
    THEN [act |-> "continue"]
    ELSE LET data == line.body.obj IN
         IF "choices" \in DOMAIN data /\ Len(data.choices) > 0
         THEN LET delta == Get(data.choices[1], "delta", EmptyDict)
                  content == Get(delta, "content", "")
              IN  IF content # "" THEN [act |-> "yield", ev |-> content]
                  ELSE [act |-> "continue"]
         ELSE IF "content" \in DOMAIN data
         THEN [act |-> "yield", ev |-> data.content]
         ELSE [act |-> "continue"]

StreamCompletionStep(line) ==
    IF IsBlank(line) THEN [act |-> "continue"]
    ELSE LET l == StripDataPrefix(line) IN
         IF IsDoneMarker(l) THEN [act |-> "break"]
         ELSE IF JsonLoads(l) THEN CompletionOnJson(l)
         ELSE [act |-> "continue"]

(***************************************************************************)
(* get_full_response, streaming search branch: the body of the loop over   *)
(* the messages of stream_search.                                          *)
(***************************************************************************)
\* f"  [{index}] {title}\n    {link}\n" for each reference
RECURSIVE FormatRefs(_)
FormatRefs(refs) ==
    IF refs = << >> THEN ""
    ELSE "  [" \o (IF "index" \in DOMAIN refs[1] THEN ToString(refs[1].index) ELSE "")
         \o "] " \o Get(refs[1], "title", "")
         \o "\n    " \o Get(refs[1], "link", "") \o "\n" \o FormatRefs(Tail(refs))

\* GfrOnError, appending the message to the text instead of raising
GfrOnError_append(text, refs, message) ==
    [raise |-> FALSE, refs |-> refs,
     text |-> text \o Get(message, "msg", "Unknown error")]

\* elif msg_type == "error": raise RuntimeError(...)
GfrOnError(text, refs, message) ==
    [raise |-> TRUE,
     msg |-> "Metaso API error (code " \o PyStr(Get(message, "code", << >>))
             \o "): " \o Get(message, "msg", "Unknown error")]

GfrOnMessage(text, refs, message) ==
    LET msg_type == Get(message, "type", NoType) IN
    IF msg_type = "query"
    THEN LET keywords == Get(message, "data", << >>) IN
         [raise |-> FALSE, refs |-> refs,
          text |-> IF keywords # << >>
                   THEN text \o "Keywords: " \o Join(keywords, ", ") \o "\n\n"
                   ELSE text]
    ELSE IF msg_type = "set-reference"
    THEN LET ref_list == Get(message, "list", << >>) IN
         [raise |-> FALSE, refs |-> ref_list,
          text |-> IF ref_list # << >>
                   THEN text \o "References:\n" \o FormatRefs(ref_list) \o "\n"
                   ELSE text]
    ELSE IF msg_type = "append-text"
    THEN [raise |-> FALSE, refs |-> refs, text |-> text \o Get(message, "text", "")]
    ELSE IF msg_type = "error"
    THEN GfrOnError(text, refs, message)
    ELSE [raise |-> FALSE, refs |-> refs, text |-> text]

(***************************************************************************)
(* get_full_response, buffered search branch: what it makes of the         *)
(* document search() returned.                                             *)
(***************************************************************************)
\* GfrBuffered, comparing errCode with 1 instead of 0
GfrBuffered_errCodeOne(res, save) ==
    IF Get(res, "errCode", << >>) = <<1>>
    THEN [raise |-> TRUE,
          msg |-> "Metaso API error: " \o Get(res, "errMsg", "Unknown error")]
    ELSE IF save
    THEN [raise |-> FALSE, text |-> "Raw JSON saved to metaso_response.json"]
    ELSE LET data == Get(res, "data", EmptyDict)
             text == Get(data, "text", "")
             refs == Get(data, "references", << >>)
         IN  [raise |-> FALSE,
              text |-> IF refs # << >>
                       THEN text \o "References:\n" \o FormatRefs(refs) \o "\n"
                       ELSE text]

\* if result.get("errCode") != 0: raise ...; if save_raw_json: ...; format
GfrBuffered(res, save) ==
    IF Get(res, "errCode", << >>) # <<0>>
    THEN [raise |-> TRUE,
          msg |-> "Metaso API error: " \o Get(res, "errMsg", "Unknown error")]
    ELSE IF save
    THEN [raise |-> FALSE, text |-> "Raw JSON saved to metaso_response.json"]
    ELSE LET data == Get(res, "data", EmptyDict)
             text == Get(data, "text", "")
             refs == Get(data, "references", << >>)
         IN  [raise |-> FALSE,
              text |-> IF refs # << >>
                       THEN text \o "References:\n" \o FormatRefs(refs) \o "\n"
                       ELSE text]

\* a 2xx response whose body is no JSON document
NotJson == [notjson |-> TRUE]

\* the documents the search endpoint answers a buffered call with
Bodies ==
    {[errCode |-> <<0>>, data |-> [text |-> "ab", references |-> <<RefA>>]],
     [errCode |-> <<0>>, data |-> [text |-> "a", references |-> << >>]],
     [errCode |-> <<0>>, errMsg |-> "ok", data |-> [text |-> "b", references |-> <<RefB, RefA>>]],
     [errCode |-> <<0>>],
     [errCode |-> <<1>>, errMsg |-> "quota"],
     [errCode |-> <<2>>, data |-> [text |-> "a", references |-> << >>]],
     [data |-> [text |-> "a", references |-> << >>]],
     NotJson}

(***************************************************************************)
(* One invocation of a public method of the client.                        *)
(***************************************************************************)
Ops == {"search", "stream_search", "stream_completion", "get_full_response"}

\* the method that performs the HTTP exchange: get_full_response dispatches
\* on self.api_type and on its stream argument
InnerCall(t, o, s) ==
    IF o # "get_full_response" THEN o
    ELSE IF t = "metaso" THEN (IF s THEN "stream_search" ELSE "search")
    ELSE "stream_completion"

\* the ValueError guards at the head of search, stream_search and
\* stream_completion (get_full_response calls search with stream=False)
GuardRaises(t, o, s) ==
    \/ o = "search" /\ (t # "metaso" \/ s)
    \/ o = "stream_search" /\ t # "metaso"
    \/ o = "stream_completion" /\ t # "openai"

TransportOutcomes == {"ok", "status_error", "timeout", "connect_error"}

\* TransportRaises without the call of response.raise_for_status()
TransportRaises_noStatusCheck(out) == out \in {"timeout", "connect_error"}

\* httpx raises on a timeout or a connection failure, and
\* response.raise_for_status() on a status that is not 2xx
TransportRaises(out) == out # "ok"

ExceptionOf(out) ==
    CASE out = "status_error" -> "HTTPStatusError"
      [] out = "timeout" -> "TimeoutException"
      [] out = "connect_error" -> "ConnectError"
      [] out = "read_error" -> "ReadError"
      [] OTHER -> "Exception"

Inner == InnerCall(api_type, op, stream)

InitCall ==
    /\ api_type \in {"metaso", "openai"}
    /\ op = "none"
    /\ stream = TRUE
    /\ save_raw_json = FALSE
    /\ pc = "idle"
    /\ requests = 0
    /\ transport = "none"
    /\ conn = << >>
    /\ ended = "no"
    /\ delivered = << >>
    /\ full_text = ""
    /\ references = << >>
    /\ body = << >>
    /\ result = << >>
    /\ error = << >>

\* the call up to the moment the request is on the wire
Invoke(o, s, save) ==
    /\ UNCHANGED <<payloadVars, clientVars, webVars, fmtVars>>
    /\ pc = "idle"
    /\ op' = o
    /\ stream' = s
    /\ save_raw_json' = save
    /\ IF GuardRaises(api_type, o, s)
       THEN /\ pc' = "failed"
            /\ error' = <<[type |-> "ValueError"]>>
            /\ requests' = requests
       ELSE /\ pc' = "sent"
            /\ error' = error
            /\ requests' = requests + 1
    /\ UNCHANGED <<api_type, transport, conn, ended, delivered, full_text,
                   references, body, result>>

\* the exchange fails: the exception reaches the caller
ResponseFailed(out) ==
    /\ UNCHANGED <<payloadVars, clientVars, webVars, fmtVars>>
    /\ pc = "sent"
    /\ TransportRaises(out)
    /\ transport' = out
    /\ pc' = "failed"
    /\ error' = <<[type |-> ExceptionOf(out)]>>
    /\ UNCHANGED <<api_type, op, stream, save_raw_json, requests, conn, ended,
                   delivered, full_text, references, body, result>>

\* the response of a streaming call arrives: the loop over its lines starts
ResponseStreaming(out) ==
    /\ UNCHANGED <<payloadVars, clientVars, webVars, fmtVars>>
    /\ pc = "sent"
    /\ Inner \in {"stream_search", "stream_completion"}
    /\ ~TransportRaises(out)
    /\ transport' = out
    /\ pc' = "streaming"
    /\ UNCHANGED <<api_type, op, stream, save_raw_json, requests, conn, ended,
                   delivered, full_text, references, body, result, error>>

\* the response of search() arrives; get_full_response formats it
ResponseBuffered(out, b) ==
    /\ UNCHANGED <<payloadVars, clientVars, webVars, fmtVars>>
    /\ pc = "sent"
    /\ Inner = "search"
    /\ ~TransportRaises(out)
    /\ transport' = out
    /\ IF b = NotJson
       THEN /\ pc' = "failed"
            /\ error' = <<[type |-> "JSONDecodeError"]>>
            /\ UNCHANGED <<body, result>>
       ELSE IF op = "search"
       THEN /\ pc' = "done"
            /\ body' = <<b>>
            /\ UNCHANGED <<result, error>>
       ELSE LET r == GfrBuffered(b, save_raw_json) IN
            /\ body' = <<b>>
            /\ IF r.raise
               THEN /\ pc' = "failed"
                    /\ error' = <<[type |-> "RuntimeError", msg |-> r.msg]>>
                    /\ result' = result
               ELSE /\ pc' = "done"
                    /\ result' = <<r.text>>
                    /\ error' = error
    /\ UNCHANGED <<api_type, op, stream, save_raw_json, requests, conn, ended,
                   delivered, full_text, references>>

\* the generator is exhausted: the consumer's loop ends and
\* get_full_response returns what it accumulated
Finish(how) ==
    /\ pc' = "done"
    /\ ended' = how
    /\ result' = IF op = "get_full_response" THEN <<full_text>> ELSE << >>
    /\ UNCHANGED <<delivered, full_text, references, error>>

\* the consumer's loop body for one yielded item
Consume(item) ==
    /\ delivered' = Append(delivered, item)
    /\ IF op = "get_full_response" /\ Inner = "stream_search"
       THEN LET r == GfrOnMessage(full_text, references, item) IN
            IF r.raise
            THEN /\ pc' = "failed"
                 /\ ended' = "closed"
                 /\ error' = <<[type |-> "RuntimeError", msg |-> r.msg]>>
                 /\ UNCHANGED <<full_text, references, result>>
            ELSE /\ full_text' = r.text
                 /\ references' = r.refs
                 /\ UNCHANGED <<pc, ended, result, error>>
       ELSE IF op = "get_full_response"
       THEN /\ full_text' = full_text \o item
            /\ UNCHANGED <<pc, ended, references, result, error>>
       ELSE UNCHANGED <<pc, ended, full_text, references, result, error>>

\* one iteration of the loop over response.iter_lines(), with what the
\* consumer does when the iteration yields
ReadLine(line) ==
    /\ UNCHANGED <<payloadVars, clientVars, webVars, fmtVars>>
    /\ pc = "streaming"
    /\ Len(conn) < MaxLines
    /\ line \in (IF Inner = "stream_search" THEN SearchLines ELSE ChatLines)
    /\ conn' = Append(conn, line)
    /\ LET step == IF Inner = "stream_search" THEN StreamSearchStep(line)
                   ELSE StreamCompletionStep(line)
       IN  CASE step.act = "continue" ->
                  UNCHANGED <<pc, ended, delivered, full_text, references,
                              result, error>>
             [] step.act = "break" -> Finish("break")
             [] step.act = "crash" ->
                  /\ pc' = "failed"
                  /\ ended' = "crash"
                  /\ error' = <<[type |-> step.exc]>>
                  /\ UNCHANGED <<delivered, full_text, references, result>>
             [] step.act = "yield" -> Consume(step.ev)
    /\ UNCHANGED <<api_type, op, stream, save_raw_json, requests, transport, body>>

\* the server closes the connection: iter_lines() is exhausted
EndOfStream ==
    /\ UNCHANGED <<payloadVars, clientVars, webVars, fmtVars>>
    /\ pc = "streaming"
    /\ Finish("eof")
    /\ UNCHANGED <<api_type, op, stream, save_raw_json, requests, transport,
                   conn, body>>

\* the connection fails while the lines are read
StreamReadError ==
    /\ UNCHANGED <<payloadVars, clientVars, webVars, fmtVars>>
    /\ pc = "streaming"
    /\ transport' = "read_error"
    /\ pc' = "failed"
    /\ ended' = "read_error"
    /\ error' = <<[type |-> ExceptionOf("read_error")]>>
    /\ UNCHANGED <<api_type, op, stream, save_raw_json, requests, conn,
                   delivered, full_text, references, body, result>>

(***************************************************************************)
(* The payloads.  A payload is a function of the client's parameters and   *)
(* of the arguments of the call; the specification SpecPayload applies the *)
(* builders to the arguments each caller passes.  (Whether the caller gets *)
(* a client at all is the matter of the constructor, not of the builders.) *)
(***************************************************************************)
\* "question": question[:2000]
MaxQuestionChars == 2000

Min(a, b) == IF a < b THEN a ELSE b

\* Truncate, keeping the whole question
Truncate_none(question) == question

\* question[:2000]
Truncate(question) == SubSeq(question, 1, Min(Len(question), MaxQuestionChars))

\* Python truthiness of an optional str, int and bool
TruthyStr(x) == x # << >> /\ x[1] # ""
TruthyInt(x) == x # << >> /\ x[1] # 0
TruthyBool(x) == x # << >> /\ x[1]

\* {key: value} if cond else {}
Put(cond, key, value) == IF cond THEN key :> value[1] ELSE EmptyDict

\* key_mapping of _get_metaso_config_payload
KeyMapping ==
    [lang |-> "lang", session_id |-> "sessionId", third_party_uid |-> "thirdPartyUid",
     enable_mix |-> "enableMix", enable_image |-> "enableImage",
     engine_type |-> "engineType"]

RECURSIVE ConfigEntries(_, _)
ConfigEntries(params, keys) ==
    IF keys = {} THEN EmptyDict
    ELSE LET k == CHOOSE x \in keys : TRUE IN
         (IF k \in DOMAIN params THEN KeyMapping[k] :> params[k] ELSE EmptyDict)
         @@ ConfigEntries(params, keys \ {k})

\* _get_metaso_config_payload: a key of the configuration that is absent or
\* None is a key outside DOMAIN params
MetasoConfigPayload(params) == ConfigEntries(params, DOMAIN KeyMapping)

\* get_full_response: the arguments it passes to search / stream_search
\* (kwargs.get(name) or kwargs.get(name, False))
SearchArgs(o) ==
    [lang |-> o.lang, session_id |-> o.session_id,
     third_party_uid |-> o.third_party_uid,
     enable_mix |-> IF o.enable_mix = << >> THEN <<FALSE>> ELSE o.enable_mix,
     enable_image |-> IF o.enable_image = << >> THEN <<FALSE>> ELSE o.enable_image,
     engine_type |-> o.engine_type]

\* the payload of search (is_stream FALSE) and of stream_search (TRUE)
SearchPayload(params, question, a, is_stream) ==
    LET set == [question |-> Truncate(question), stream |-> is_stream]
               @@ Put(TruthyStr(a.lang), "lang", a.lang)
               @@ Put(TruthyInt(a.session_id), "sessionId", a.session_id)
               @@ Put(TruthyStr(a.third_party_uid), "thirdPartyUid", a.third_party_uid)
               @@ Put(TruthyBool(a.enable_mix), "enableMix", a.enable_mix)
               @@ Put(TruthyBool(a.enable_image), "enableImage", a.enable_image)
               @@ Put(a.engine_type # << >>, "engineType", a.engine_type)
    IN  set @@ MetasoConfigPayload(params)

\* the values a max_tokens setting can have: an int, or a str as a JSON
\* configuration or a caller may supply it
IntVal(n) == [t |-> "int", i |-> n, s |-> ""]
StrVal(x) == [t |-> "str", i |-> 0, s |-> x]

\* Python truthiness of an optional int-or-str value
TruthyVal(x) == x # << >> /\ (IF x[1].t = "int" THEN x[1].i # 0 ELSE x[1].s # "")

\* int(v): the integer, or << >> where int raises ValueError
PyInt(v) ==
    IF v.t = "int" THEN <<IntVal(v.i)>>
    ELSE CASE v.s = "64" -> <<IntVal(64)>>
           [] v.s = " 8 " -> <<IntVal(8)>>
           [] v.s = "-3" -> <<IntVal(-3)>>
           [] v.s = "0" -> <<IntVal(0)>>
           [] OTHER -> << >>

\* main: max_tokens of the profile's extra_params, coerced or None
CliMaxTokens(v) == IF v = << >> THEN << >> ELSE PyInt(v[1])

\* self.model of a chat client
ChatModel == "gpt-3.5-turbo"

\* the payload of stream_completion
ChatPayload(question, system_prompt, temperature, max_tokens) ==
    [model |-> ChatModel,
     messages |-> (IF TruthyStr(system_prompt)
                   THEN <<[role |-> "system", content |-> system_prompt[1]]>>
                   ELSE << >>)
                  \o <<[role |-> "user", content |-> question]>>,
     stream |-> TRUE]
    @@ Put(temperature # << >>, "temperature", temperature)
    @@ Put(TruthyVal(max_tokens), "max_tokens", max_tokens)

\* temperatures are counted in tenths: 7 is 0.7
InRange(t) == 0 <= t /\ t <= 20

\* temperature = default_temperature if default_temperature is not None else 0.7
CliDefaultTemperature == 7

\* main: the temperature it passes to get_full_response
CliTemperature(dflt, arg) ==
    LET temperature == IF dflt # << >> THEN dflt ELSE <<CliDefaultTemperature>> IN
    IF TruthyInt(arg) /\ InRange(arg[1]) THEN arg ELSE temperature

\* chat (app.py): the temperature it passes, or the 400 answer
WebTemperature(dflt, req) ==
    IF dflt = << >> THEN [reject |-> FALSE, temperature |-> << >>]
    ELSE LET t == IF req # << >> THEN req ELSE dflt IN
         IF InRange(t[1]) THEN [reject |-> FALSE, temperature |-> t]
         ELSE [reject |-> TRUE, temperature |-> << >>]

\* the prompts of the model: the character at position i is Char(i)
Char(i) == IF i % 3 = 1 THEN "a" ELSE IF i % 3 = 2 THEN "b" ELSE "c"
PromptOf(n) == [i \in 1..n |-> Char(i)]
PromptLengths ==
    {0, MaxQuestionChars - 1, MaxQuestionChars, MaxQuestionChars + 1,
     MaxQuestionChars + MaxOver}

\* the parameters a search client is constructed with
ParamSets ==
    {EmptyDict,
     [lang |-> "en"],
     [enable_mix |-> TRUE, session_id |-> 9],
     [enable_mix |-> FALSE, enable_image |-> TRUE],
     [lang |-> "en", engine_type |-> "pdf", third_party_uid |-> "cfg"]}

\* the options a search call supplies
SearchOptions ==
    [lang : {<< >>, <<"">>, <<"zh">>},
     session_id : {<< >>, <<0>>, <<5>>},
     third_party_uid : {<<"u">>},
     enable_mix : {<< >>, <<FALSE>>, <<TRUE>>},
     enable_image : {<< >>},
     engine_type : {<< >>, <<"">>, <<"web">>}]

Temperatures == {<< >>, <<0>>, <<9>>, <<25>>}

MaxTokensValues ==
    {<< >>, <<IntVal(0)>>, <<IntVal(64)>>, <<IntVal(-5)>>, <<StrVal("64")>>,
     <<StrVal("-3")>>, <<StrVal("abc")>>, <<StrVal("")>>}

\* the options a chat call supplies (for main.py: the -T argument and the
\* system_prompt and max_tokens of the profile's extra_params)
ChatOptions ==
    [system_prompt : {<< >>, <<"sys">>},
     temperature : Temperatures,
     max_tokens : MaxTokensValues]

NoOptions == [none |-> TRUE]

InitPayloadIdle ==
    /\ metaso_params = EmptyDict
    /\ caller = "none"
    /\ prompt = << >>
    /\ call_opts = NoOptions
    /\ default_temperature = << >>
    /\ built_by = "none"
    /\ payload = << >>

InitPayload ==
    /\ metaso_params \in (IF api_type = "metaso" THEN ParamSets ELSE {EmptyDict})
    /\ caller = "none"
    /\ prompt = << >>
    /\ call_opts = NoOptions
    /\ default_temperature = << >>
    /\ built_by = "none"
    /\ payload = << >>

\* search() and stream_search(), called through get_full_response
BuildSearchPayload(n, o, is_stream) ==
    /\ api_type = "metaso"
    /\ built_by = "none"
    /\ caller' = "library"
    /\ prompt' = PromptOf(n)
    /\ call_opts' = o
    /\ built_by' = IF is_stream THEN "stream_search" ELSE "search"
    /\ payload' = <<SearchPayload(metaso_params, PromptOf(n), SearchArgs(o), is_stream)>>
    /\ UNCHANGED <<metaso_params, default_temperature>>
    /\ UNCHANGED <<callVars, clientVars, webVars, fmtVars>>

\* stream_completion(), called through get_full_response with the keyword
\* arguments of each caller
BuildChatPayload(c, n, o, dflt) ==
    /\ api_type = "openai"
    /\ built_by = "none"
    /\ caller' = c
    /\ prompt' = PromptOf(n)
    /\ call_opts' = o
    /\ default_temperature' = dflt
    /\ CASE c = "library" ->
              /\ dflt = << >>
              /\ built_by' = "stream_completion"
              /\ payload' = <<ChatPayload(PromptOf(n), o.system_prompt,
                                          o.temperature, o.max_tokens)>>
         [] c = "web" ->
              /\ o.system_prompt = << >> /\ o.max_tokens = << >>
              /\ LET w == WebTemperature(dflt, o.temperature) IN
                 IF w.reject
                 THEN UNCHANGED <<built_by, payload>>
                 ELSE /\ built_by' = "stream_completion"
                      /\ payload' = <<ChatPayload(PromptOf(n), << >>,
                                                  w.temperature, << >>)>>
         [] c = "cli" ->
              /\ built_by' = "stream_completion"
              /\ payload' = <<ChatPayload(PromptOf(n), o.system_prompt,
                                          CliTemperature(dflt, o.temperature),
                                          CliMaxTokens(o.max_tokens))>>
    /\ UNCHANGED metaso_params
    /\ UNCHANGED <<callVars, clientVars, webVars, fmtVars>>

(***************************************************************************)
(* The construction of a client, LLMClient.__init__, and the requests      *)
(* issued with it (specification SpecClient).                              *)
(***************************************************************************)
\* the URLs of the model; "metaso" in api_url.lower() holds of the first two
MetasoUrl == "https://metaso.cn/api/open/search"
MetasoUrlUpper == "https://api.METASO.example/search"
OpenAIUrl == "https://api.openai.com/v1/chat/completions"
ContainsMetaso(url) == url \in {MetasoUrl, MetasoUrlUpper}

\* the parameters of __init__
InitParameters ==
    {"api_url", "model", "api_key_name", "verbose", "metaso_params", "openai_params"}

\* os.getenv(name)
GetEnv(e, name) == IF name \in DOMAIN e THEN e[name] ELSE << >>

\* the key validation of __init__, forgetting the search clients
KeyMissing_chatOnly(t, api_key, secret_key) ==
    t # "metaso" /\ ~TruthyStr(api_key)

\* if self.api_type == "metaso" and not self.api_key and not self.secret_key
\* elif self.api_type != "metaso" and not self.api_key
KeyMissing(t, api_key, secret_key) ==
    \/ t = "metaso" /\ ~TruthyStr(api_key) /\ ~TruthyStr(secret_key)
    \/ t # "metaso" /\ ~TruthyStr(api_key)

\* LLMClient(**kw) under the environment e: the client, or the exception
LLMClientInit(kw, e) ==
    IF ~(DOMAIN kw \subseteq InitParameters) \/ "api_url" \notin DOMAIN kw
    THEN [ok |-> FALSE, exc |-> "TypeError"]
    ELSE LET api_url == kw.api_url
             api_key_name == Get(kw, "api_key_name", << >>)
             model == Get(kw, "model", << >>)
         IN
         IF ~TruthyStr(api_url) THEN [ok |-> FALSE, exc |-> "ValueError"]
         ELSE LET t == IF ContainsMetaso(api_url[1]) THEN "metaso" ELSE "openai" IN
              IF ~TruthyStr(api_key_name) THEN [ok |-> FALSE, exc |-> "ValueError"]
              ELSE LET secret_key == IF t = "metaso"
                                     THEN GetEnv(e, "METASO_SECRET_KEY") ELSE << >>
                       api_key == GetEnv(e, api_key_name[1])
                   IN
                   IF KeyMissing(t, api_key, secret_key)
                   THEN [ok |-> FALSE, exc |-> "ValueError"]
                   ELSE IF t # "metaso" /\ ~TruthyStr(model)
                   THEN [ok |-> FALSE, exc |-> "ValueError"]
                   ELSE [ok |-> TRUE,
                         self |-> [api_url |-> api_url[1], api_type |-> t,
                                   api_key |-> api_key, secret_key |-> secret_key,
                                   model |-> model,
                                   verbose |-> Get(kw, "verbose", FALSE)]]

\* a search endpoint whose URL does not contain "metaso"
SearchOtherUrl == "https://search.example.com/api/query"

\* the profiles of the model: entries of api_configs.json; q_key and
\* extra_params are the settings main.py and app.py read besides
Profiles ==
    {[id |-> "metaso-default", api_url |-> <<MetasoUrl>>, model |-> << >>,
      api_key_name |-> <<"METASO_API_KEY">>, q_key |-> <<"q">>,
      extra_params |-> [lang |-> "en"]],
     [id |-> "metaso-upper", api_url |-> <<MetasoUrlUpper>>, model |-> << >>,
      api_key_name |-> <<"OTHER_KEY">>, q_key |-> << >>,
      extra_params |-> EmptyDict],
     [id |-> "search-other", api_url |-> <<SearchOtherUrl>>, model |-> <<ChatModel>>,
      api_key_name |-> <<"OPENAI_API_KEY">>, q_key |-> <<"query">>,
      extra_params |-> EmptyDict],
     [id |-> "openai-gpt35", api_url |-> <<OpenAIUrl>>, model |-> <<ChatModel>>,
      api_key_name |-> <<"OPENAI_API_KEY">>, q_key |-> << >>,
      extra_params |-> EmptyDict, default_temperature |-> <<3>>],
     [id |-> "openai-gpt35-alt", api_url |-> <<OpenAIUrl>>, model |-> <<ChatModel>>,
      api_key_name |-> <<"OTHER_KEY">>, q_key |-> << >>,
      extra_params |-> [system_prompt |-> "sys"]],
     [id |-> "openai-no-model", api_url |-> <<OpenAIUrl>>, model |-> << >>,
      api_key_name |-> <<"OPENAI_API_KEY">>, q_key |-> << >>,
      extra_params |-> EmptyDict],
     [id |-> "no-key-name", api_url |-> <<OpenAIUrl>>, model |-> <<ChatModel>>,
      api_key_name |-> <<"">>, q_key |-> << >>,
      extra_params |-> EmptyDict],
     [id |-> "no-url", api_url |-> <<"">>, model |-> <<ChatModel>>,
      api_key_name |-> <<"OPENAI_API_KEY">>, q_key |-> << >>,
      extra_params |-> EmptyDict]}

\* main: is_search_api = q_key is not None
IsSearchApi(p) == p.q_key # << >>

\* the keyword arguments of LLMClient(...): a library caller passes the
\* parameters of __init__; main.py and app.py pass extra_params and q_key
KwargsOf(c, p, v) ==
    [api_url |-> p.api_url, model |-> p.model, api_key_name |-> p.api_key_name,
     verbose |-> v]
    @@ (IF c = "library" THEN EmptyDict
        ELSE [extra_params |-> p.extra_params, q_key |-> p.q_key])

EnvValues(secret) == {<< >>, <<"">>, <<secret>>}

\* a secret made of two words
TwoWords == "two words"

Environments ==
    [METASO_SECRET_KEY : EnvValues("secret-m") \cup {<<TwoWords>>},
     METASO_API_KEY : EnvValues("key-m"),
     OPENAI_API_KEY : EnvValues("key-o")]

InitClientIdle ==
    /\ env = [METASO_SECRET_KEY |-> << >>, METASO_API_KEY |-> << >>,
              OPENAI_API_KEY |-> << >>]
    /\ profile = << >>
    /\ ctor_kwargs = << >>
    /\ client = << >>
    /\ ctor_error = << >>
    /\ http_log = << >>
    /\ stderr_log = << >>
    /\ disk_log = << >>

InitClient ==
    /\ env \in Environments
    /\ profile = << >>
    /\ ctor_kwargs = << >>
    /\ client = << >>
    /\ ctor_error = << >>
    /\ http_log = << >>
    /\ stderr_log = << >>
    /\ disk_log = << >>

\* LLMClient(...) called by a library caller or by main.py
Construct(c, p, v) ==
    /\ ctor_kwargs = << >>
    /\ profile' = <<p>>
    /\ ctor_kwargs' = <<KwargsOf(c, p, v)>>
    /\ LET r == LLMClientInit(KwargsOf(c, p, v), env) IN
       IF r.ok
       THEN /\ client' = <<r.self>>
            /\ ctor_error' = ctor_error
       ELSE /\ client' = client
            /\ ctor_error' = <<r.exc>>
    /\ UNCHANGED <<env, http_log, stderr_log, disk_log>>
    /\ UNCHANGED <<callVars, payloadVars, webVars, fmtVars>>

\* HeadersOf, attaching the bearer token next to the secret-key header
HeadersOf_both(self, method) ==
    IF method = "stream_completion"
    THEN ("Authorization" :> ("Bearer " \o PyStrOf(self.api_key)))
         @@ ("Content-Type" :> "application/json")
    ELSE ("Content-Type" :> "application/json")
         @@ (IF method = "search"
             THEN ("Accept" :> "application/json")
             ELSE ("Accept" :> "text/event-stream") @@ ("Connection" :> "keep-alive"))
         @@ (IF TruthyStr(self.secret_key)
             THEN ("secret-key" :> self.secret_key[1]) ELSE EmptyDict)
         @@ (IF TruthyStr(self.api_key)
             THEN ("Authorization" :> ("Bearer " \o self.api_key[1])) ELSE EmptyDict)

\* the headers of stream_completion, and of search and stream_search, which
\* authenticate with secret-key when METASO_SECRET_KEY was set
HeadersOf(self, method) ==
    IF method = "stream_completion"
    THEN ("Authorization" :> ("Bearer " \o PyStrOf(self.api_key)))
         @@ ("Content-Type" :> "application/json")
    ELSE ("Content-Type" :> "application/json")
         @@ (IF method = "search"
             THEN ("Accept" :> "application/json")
             ELSE ("Accept" :> "text/event-stream") @@ ("Connection" :> "keep-alive"))
         @@ (IF TruthyStr(self.secret_key)
             THEN ("secret-key" :> self.secret_key[1])
             ELSE IF TruthyStr(self.api_key)
             THEN ("Authorization" :> ("Bearer " \o self.api_key[1]))
             ELSE EmptyDict)

\* key.lower() of a header name
LowerName(k) ==
    CASE k = "Authorization" -> "authorization"
      [] k = "Content-Type" -> "content-type"
      [] k = "Accept" -> "accept"
      [] k = "Connection" -> "connection"
      [] OTHER -> k

\* s.split() of a secret
WordsOf(s) ==
    CASE s = TwoWords -> <<"two", "words">>
      [] s = "" -> << >>
      [] OTHER -> <<s>>

\* the secrets of the model
SecretValues == {"secret-m", "key-m", "key-o", TwoWords}

\* value.split() of a header value
Split(value) ==
    IF \E k \in SecretValues : value = "Bearer " \o k
    THEN <<"Bearer">> \o WordsOf(CHOOSE k \in SecretValues : value = "Bearer " \o k)
    ELSE WordsOf(value)

\* _log_request_details: the value logged for a header
MaskValue(key, value) ==
    IF LowerName(key) \in {"authorization", "secret-key", "api-key"}
    THEN IF value # ""
         THEN LET parts == Split(value) IN
              IF Len(parts) > 1 THEN parts[1] \o " [MASKED]" ELSE "[MASKED]"
         ELSE value
    ELSE value

SafeHeaders(headers) == [k \in DOMAIN headers |-> MaskValue(k, headers[k])]

\* a method of the constructed client logs its request and issues it
Request(method) ==
    /\ client # << >>
    /\ Len(http_log) < MaxRequests
    /\ ~GuardRaises(client[1].api_type, method, FALSE)
    /\ LET headers == HeadersOf(client[1], method)
           log_entry == [method |-> "POST", url |-> client[1].api_url,
                         headers |-> SafeHeaders(headers)]
       IN  /\ stderr_log' = Append(stderr_log, log_entry)
           /\ disk_log' = IF client[1].verbose THEN Append(disk_log, log_entry)
                          ELSE disk_log
           /\ http_log' = Append(http_log,
                                 [method |-> method, url |-> client[1].api_url,
                                  headers |-> headers])
    /\ UNCHANGED <<env, profile, ctor_kwargs, client, ctor_error>>
    /\ UNCHANGED <<callVars, payloadVars, webVars, fmtVars>>

(***************************************************************************)
(* app.py: the /api/chat handler and its cache of clients (specification   *)
(* SpecWeb).                                                               *)
(***************************************************************************)
\* the constructor the handler is written against: LLMClient(api_url, model,
\* api_key_name, verbose, extra_params, q_key) binds a client to the profile
\* it is given and validates it as __init__ does
ClientFacadeInit(kw, e) ==
    LLMClientInit([k \in DOMAIN kw \cap InitParameters |-> kw[k]], e)

\* cache_key = f"{api_url}:{model or 'None'}"
CacheKey(p) ==
    p.api_url[1] \o ":" \o (IF TruthyStr(p.model) THEN p.model[1] ELSE "None")

\* the JSON bodies of the requests of the model
ChatRequests ==
    [config_id : {<< >>, <<"unknown">>} \cup {<<p.id>> : p \in Profiles},
     prompt : {"", "hi"},
     temperature : {<< >>, <<25>>}]

InitWeb ==
    /\ client_cache = EmptyDict
    /\ chats = 0
    /\ request = << >>
    /\ response = << >>
    /\ served = << >>

\* return jsonify({'error': ...}), status
Reply(status, why) ==
    /\ response' = <<[status |-> status, error |-> why]>>
    /\ UNCHANGED <<client_cache, served>>

\* llm_client.get_full_response(prompt, **kwargs) with the client entry;
\* ok tells whether the call returns or raises
Serve(p, entry, ok) ==
    /\ served' = <<[profile |-> p.id, kwargs |-> entry.kwargs]>>
    /\ response' = IF ok THEN <<[status |-> 200, error |-> ""]>>
                   ELSE <<[status |-> 500, error |-> "exception"]>>

\* the LLMClient(...) call of chat(): with the class of llm_client.py, or
\* with the constructor the handler is written against
WebConstruct(facade, kw, e) ==
    IF facade THEN ClientFacadeInit(kw, e) ELSE LLMClientInit(kw, e)

\* chat(): one /api/chat request that carries a prompt and no template_name
ChatBy(facade, r, ok) ==
    /\ chats < MaxChats
    /\ chats' = chats + 1
    /\ request' = <<r>>
    /\ LET found == {p \in Profiles : TruthyStr(r.config_id) /\ p.id = r.config_id[1]} IN
       IF found = {} THEN Reply(500, "No API configuration available")
       ELSE LET p == CHOOSE q \in found : TRUE
                w == WebTemperature(Get(p, "default_temperature", << >>), r.temperature)
            IN
            IF w.reject THEN Reply(400, "Temperature must be between 0.0 and 2.0")
            ELSE IF ~TruthyStr(p.api_url) THEN Reply(500, "api_url is required in config")
            ELSE IF ~TruthyStr(p.api_key_name)
            THEN Reply(500, "api_key_name is required in config")
            ELSE IF r.prompt = "" THEN Reply(400, "Either prompt or template_name with input_texts is required")
            ELSE IF CacheKey(p) \in DOMAIN client_cache
            THEN /\ Serve(p, client_cache[CacheKey(p)], ok)
                 /\ UNCHANGED client_cache
            ELSE LET kw == KwargsOf("web", p, FALSE)
                     c == WebConstruct(facade, kw, env)
                 IN  IF c.ok
                     THEN /\ client_cache' =
                                 (CacheKey(p) :> [self |-> c.self, kwargs |-> kw])
                                 @@ client_cache
                          /\ Serve(p, [self |-> c.self, kwargs |-> kw], ok)
                     ELSE Reply(500, c.exc)
    /\ UNCHANGED <<callVars, payloadVars, clientVars, fmtVars>>

\* chat() with a constructor that accepts the arguments it passes
Chat(r, ok) == ChatBy(TRUE, r, ok)

\* chat() with LLMClient as llm_client.py defines it
ChatSrc(r, ok) == ChatBy(FALSE, r, ok)

(***************************************************************************)
(* The formatting of a reference list by get_full_response (specification  *)
(* SpecRefs).                                                              *)
(***************************************************************************)
\* references whose title or link contains a line break, or that lack a field
RefBreakTitle == [index |-> 1, title |-> "A\n    x", link |-> "y"]
RefBreakLink == [index |-> 1, title |-> "A", link |-> "x\n    y"]
RefNoTitle == [index |-> 2, link |-> "http://b"]
RefEmptyTitle == [index |-> 2, title |-> "", link |-> "http://b"]

References == {RefA, RefB, RefBreakTitle, RefBreakLink, RefNoTitle, RefEmptyTitle}

\* the ordered reference lists of at most MaxRefs entries
RefLists == UNION {[1..n -> References] : n \in 0..MaxRefs}

\* the block the streaming branch appends for a set-reference message
StreamingBlock(refs) ==
    GfrOnMessage("", << >>, [type |-> "set-reference", list |-> refs]).text

\* the block the buffered branch appends to an empty data.text
BufferedBlock(refs) ==
    GfrBuffered([errCode |-> <<0>>, data |-> [text |-> "", references |-> refs]],
                FALSE).text

BlockOf(path, refs) ==
    IF path = "streaming" THEN StreamingBlock(refs) ELSE BufferedBlock(refs)

InitRefsIdle ==
    /\ fmt_list = << >>
    /\ fmt_path = "none"
    /\ fmt_block = << >>

InitRefs ==
    /\ fmt_list \in RefLists
    /\ fmt_path = "none"
    /\ fmt_block = << >>

\* the streaming branch formats the list of a set-reference message
FormatStreaming ==
    /\ fmt_path = "none"
    /\ fmt_path' = "streaming"
    /\ fmt_block' = <<StreamingBlock(fmt_list)>>
    /\ UNCHANGED fmt_list
    /\ UNCHANGED <<callVars, payloadVars, clientVars, webVars>>

\* the buffered branch formats data.references
FormatBuffered ==
    /\ fmt_path = "none"
    /\ fmt_path' = "buffered"
    /\ fmt_block' = <<BufferedBlock(fmt_list)>>
    /\ UNCHANGED fmt_list
    /\ UNCHANGED <<callVars, payloadVars, clientVars, webVars>>

Init == InitCall /\ InitPayloadIdle /\ InitClientIdle /\ InitWeb /\ InitRefsIdle

Next ==
    \/ \E o \in Ops, s \in BOOLEAN, save \in BOOLEAN : Invoke(o, s, save)
    \/ \E out \in TransportOutcomes : ResponseFailed(out)
    \/ \E out \in TransportOutcomes : ResponseStreaming(out)
    \/ \E out \in TransportOutcomes, b \in Bodies : ResponseBuffered(out, b)
    \/ \E line \in SearchLines \cup ChatLines : ReadLine(line)
    \/ EndOfStream
    \/ StreamReadError

Spec == Init /\ [][Next]_vars

InitP == InitCall /\ InitPayload /\ InitClientIdle /\ InitWeb /\ InitRefsIdle

NextPayload ==
    \/ \E n \in PromptLengths, o \in SearchOptions, is_stream \in BOOLEAN :
          BuildSearchPayload(n, o, is_stream)
    \/ \E c \in {"library", "web", "cli"}, n \in PromptLengths, o \in ChatOptions,
          dflt \in {<< >>, <<3>>} :
          BuildChatPayload(c, n, o, dflt)

SpecPayload == InitP /\ [][NextPayload]_vars

InitC == InitCall /\ InitPayloadIdle /\ InitClient /\ InitWeb /\ InitRefsIdle

NextClient ==
    \/ \E c \in {"library", "cli"}, p \in Profiles, v \in BOOLEAN : Construct(c, p, v)
    \/ \E m \in {"search", "stream_search", "stream_completion"} : Request(m)

SpecClient == InitC /\ [][NextClient]_vars

InitW == InitCall /\ InitPayloadIdle /\ InitClient /\ InitWeb /\ InitRefsIdle

NextWeb == \E r \in ChatRequests, ok \in BOOLEAN : Chat(r, ok)

SpecWeb == InitW /\ [][NextWeb]_vars

InitR == InitCall /\ InitPayloadIdle /\ InitClientIdle /\ InitWeb /\ InitRefs

NextRefs == FormatStreaming \/ FormatBuffered

SpecRefs == InitR /\ [][NextRefs]_vars

\* the two entry points, main.py and /api/chat, with LLMClient as
\* llm_client.py defines it
NextEntry ==
    \/ \E p \in Profiles, v \in BOOLEAN : Construct("cli", p, v)
    \/ \E r \in ChatRequests, ok \in BOOLEAN : ChatSrc(r, ok)

SpecEntry == InitW /\ [][NextEntry]_vars

(***************************************************************************)
(* The claims about one invocation (specification Spec).                   *)
(***************************************************************************)
\* the 'data: ' prefix of a line, when it has one, is at its very start
AtStart(l) == ~(l.lead /\ l.prefix)

\* a line that is not blank, not [DONE], not valid JSON and not prefixed ERROR:
IsNoiseLine(l) ==
    \/ l.body.kind = "noise"
    \/ l.lead /\ l.prefix
    \/ l.prefix /\ l.body.kind = "blank"

\* a line equal to [DONE] once an optional 'data: ' prefix and the
\* surrounding whitespace are stripped
IsDoneLine(l) == AtStart(l) /\ l.body.kind = "done"

\* what a line of the search stream delivers: its message, or nothing
SearchEventsOf(l) ==
    IF ~AtStart(l) THEN << >>
    ELSE IF l.body.kind = "errtext"
    THEN <<[type |-> "error", msg |-> l.body.text, code |-> << >>]>>
    ELSE IF l.body.kind = "json" /\ l.body.jtype = "object"
            /\ ~("type" \in DOMAIN l.body.obj /\ l.body.obj.type = "heartbeat")
    THEN <<l.body.obj>>
    ELSE << >>

\* what a line of the chat stream delivers: its fragment, or nothing
ChatEventsOf(l) ==
    IF AtStart(l) /\ l.body.kind = "json" /\ l.body.jtype = "object"
    THEN LET r == CompletionOnJson(Plain(l.body)) IN
         IF r.act = "yield" THEN <<r.ev>> ELSE << >>
    ELSE << >>

\* the events of the lines up to the first [DONE] line, in order
RECURSIVE EventsOf(_, _)
EventsOf(lines, inner) ==
    IF lines = << >> \/ IsDoneLine(Head(lines)) THEN << >>
    ELSE (IF inner = "stream_search" THEN SearchEventsOf(Head(lines))
          ELSE ChatEventsOf(Head(lines)))
         \o EventsOf(Tail(lines), inner)

IsErrorEvent(m) == "type" \in DOMAIN m /\ m.type = "error"

\* C1: in get_full_response on the streaming search path, once an error
\* event with code c and message m is reached the call has failed with an
\* error whose message carries c and m, and no text is returned.
C1_ErrorEventRaises ==
    (op = "get_full_response" /\ Inner = "stream_search") =>
        \A i \in 1..Len(delivered) :
            IsErrorEvent(delivered[i]) =>
                /\ pc = "failed"
                /\ result = << >>
                /\ error = <<[type |-> "RuntimeError",
                              msg |-> "Metaso API error (code "
                                      \o PyStr(delivered[i].code) \o "): "
                                      \o delivered[i].msg]>>
                /\ delivered[i] = EvError =>
                       error[1].msg = "Metaso API error (code 7): bad"

\* a fragment was accumulated, then the error event arrived
C1_Witness ==
    /\ op = "get_full_response"
    /\ Inner = "stream_search"
    /\ delivered = <<EvTextA, EvError>>
    /\ full_text = "a"
    /\ pc = "failed"
    /\ result = << >>

\* C2: a line that is not valid JSON (and not prefixed ERROR:) is skipped
\* without ending the stream: it neither ends the loop nor costs a delivery,
\* and what has been delivered is, in order, the events of every event line
\* read, the ones after the skipped line included.
C2_NoiseSkipped ==
    (\E i \in 1..Len(conn) : IsNoiseLine(conn[i])) =>
        /\ IsNoiseLine(conn[Len(conn)]) => ended \in {"no", "eof", "read_error"}
        /\ ended # "crash" => delivered = EventsOf(conn, Inner)

\* a line that is no JSON, then an event line, which is delivered
C2_Witness ==
    /\ op = "stream_search"
    /\ api_type = "metaso"
    /\ conn = <<Plain(JsonObject(EvTextA)), Plain(Noise), Data(JsonObject(EvTextB))>>
    /\ delivered = <<EvTextA, EvTextB>>
    /\ pc = "streaming"

\* C3: once a [DONE] line is read the stream has ended normally, and no
\* later line of the connection is read or delivered.
C3_DoneTerminates ==
    \A i \in 1..Len(conn) :
        IsDoneLine(conn[i]) =>
            /\ i = Len(conn)
            /\ pc = "done"
            /\ ended = "break"
            /\ error = << >>
            /\ delivered = EventsOf(SubSeq(conn, 1, i - 1), Inner)

\* an event, then [DONE] behind a 'data: ' prefix
C3_Witness ==
    /\ op = "stream_search"
    /\ api_type = "metaso"
    /\ conn = <<Plain(JsonObject(EvTextA)), Data(DoneMarker)>>
    /\ delivered = <<EvTextA>>
    /\ pc = "done"

\* the text of the append-text messages, concatenated
RECURSIVE TextOf(_)
TextOf(ms) ==
    IF ms = << >> THEN ""
    ELSE (IF "type" \in DOMAIN ms[1] /\ ms[1].type = "append-text"
          THEN ms[1].text ELSE "")
         \o TextOf(Tail(ms))

\* the list of the latest set-reference message, << >> if there is none
RECURSIVE RefsOf(_)
RefsOf(ms) ==
    IF ms = << >> THEN << >>
    ELSE LET m == ms[Len(ms)] IN
         IF "type" \in DOMAIN m /\ m.type = "set-reference" THEN m.list
         ELSE RefsOf(SubSeq(ms, 1, Len(ms) - 1))

\* the single document that carries the content of the streamed messages
SameContentBody(ms) ==
    [errCode |-> <<0>>, data |-> [text |-> TextOf(ms), references |-> RefsOf(ms)]]

\* C4: what get_full_response returns from a stream is what it returns from
\* the buffered document with the same text, references and keywords.
C4_StreamedEqualsBuffered ==
    (op = "get_full_response" /\ Inner = "stream_search" /\ pc = "done") =>
        result = <<GfrBuffered(SameContentBody(delivered), FALSE).text>>

\* C9: an invocation issues at most one HTTP request, and when the exchange
\* fails the failure is raised with no second request and no result.
C9_SingleRequestNoRetry ==
    /\ requests <= 1
    /\ transport \in {"status_error", "timeout", "connect_error", "read_error"} =>
           /\ pc = "failed"
           /\ requests = 1
           /\ result = << >>
           /\ body = << >>
           /\ error = <<[type |-> ExceptionOf(transport)]>>

\* a status that is not 2xx on the streaming search path
C9_Witness ==
    /\ op = "get_full_response"
    /\ Inner = "stream_search"
    /\ transport = "status_error"
    /\ pc = "failed"
    /\ requests = 1

\* C10: in stream_search nothing is delivered after an error event.
C10_NothingAfterError ==
    Inner = "stream_search" =>
        \A i \in 1..Len(delivered) :
            IsErrorEvent(delivered[i]) => i = Len(delivered)

IsSetReference(m) == "type" \in DOMAIN m /\ m.type = "set-reference"

\* the position of the latest set-reference message, 0 if there is none
LastSetReference(ms) ==
    IF \E i \in 1..Len(ms) : IsSetReference(ms[i])
    THEN CHOOSE i \in 1..Len(ms) :
             /\ IsSetReference(ms[i])
             /\ \A j \in (i + 1)..Len(ms) : ~IsSetReference(ms[j])
    ELSE 0

\* the text of the messages from position i on, with the reference block of
\* the set-reference message at position keep and of no other
RECURSIVE TextKeeping(_, _, _)
TextKeeping(ms, i, keep) ==
    IF i > Len(ms) THEN ""
    ELSE (IF IsSetReference(ms[i]) /\ i # keep THEN ""
          ELSE GfrOnMessage("", << >>, ms[i]).text)
         \o TextKeeping(ms, i + 1, keep)

\* C11: the text get_full_response returns from a search stream carries the
\* reference block of the latest set-reference message and of no earlier one.
C11_LatestReferencesOnly ==
    (op = "get_full_response" /\ Inner = "stream_search" /\ pc = "done") =>
        result = <<TextKeeping(delivered, 1, LastSetReference(delivered))>>

\* C12: no line of a stream, whatever its content, makes stream_search or
\* stream_completion raise: a line that is valid JSON but no JSON object is
\* passed over like any other malformed line.
C12_MalformedLineNeverRaises ==
    /\ ended # "crash"
    /\ \A i \in 1..Len(conn) :
           (conn[i].body.kind = "json" /\ conn[i].body.jtype # "object") =>
               (error = << >> \/ error[1].type \in {"ReadError", "RuntimeError"})

\* data.text followed by the block of data.references
FormattedText(b) ==
    LET data == Get(b, "data", EmptyDict)
        refs == Get(data, "references", << >>)
    IN  Get(data, "text", "")
        \o (IF refs # << >> THEN "References:\n" \o FormatRefs(refs) \o "\n" ELSE "")

BufferedAnswered == op = "get_full_response" /\ Inner = "search" /\ body # << >>

\* errCode of the answer is not 0: the call has failed with errMsg, without text
BufferedFailedWithErrMsg ==
    /\ pc = "failed"
    /\ result = << >>
    /\ error = <<[type |-> "RuntimeError",
                  msg |-> "Metaso API error: "
                          \o Get(body[1], "errMsg", "Unknown error")]>>

\* C13 as stated: on the buffered search path get_full_response fails with
\* errMsg exactly when errCode is not 0 and returns the formatted text
\* exactly when errCode is 0.
C13_ErrCodeDecides ==
    BufferedAnswered =>
        IF Get(body[1], "errCode", << >>) # <<0>>
        THEN BufferedFailedWithErrMsg
        ELSE /\ pc = "done"
             /\ error = << >>
             /\ result = <<FormattedText(body[1])>>

\* C13 as amended: with errCode 0 the formatted text is returned unless
\* save_raw_json is set, and then the notice of the saved file is returned.
C13_ErrCodeDecidesUnlessSaved ==
    BufferedAnswered =>
        IF Get(body[1], "errCode", << >>) # <<0>>
        THEN BufferedFailedWithErrMsg
        ELSE /\ pc = "done"
             /\ error = << >>
             /\ result = IF save_raw_json
                         THEN <<"Raw JSON saved to metaso_response.json">>
                         ELSE <<FormattedText(body[1])>>

\* an answer with errCode 1 and errMsg quota: the call fails with that message
C13_Witness ==
    /\ BufferedAnswered
    /\ body[1] = [errCode |-> <<1>>, errMsg |-> "quota"]
    /\ pc = "failed"
    /\ error = <<[type |-> "RuntimeError", msg |-> "Metaso API error: quota"]>>
    /\ result = << >>

\* a line that is no JSON and, once an optional 'data: ' prefix and the
\* surrounding whitespace are stripped, starts with ERROR:
IsErrorTextLine(l) == AtStart(l) /\ l.body.kind = "errtext"

\* a line that carries a JSON object other than a heartbeat
IsEventLine(l) ==
    /\ AtStart(l) /\ l.body.kind = "json" /\ l.body.jtype = "object"
    /\ Get(l.body.obj, "type", NoType) # "heartbeat"

\* C16: in stream_search every line read that is no JSON and starts with
\* ERROR: has been delivered as an error event whose message is the line,
\* get_full_response has failed on it, and no other line that is no JSON
\* has produced an event.
C16_ErrorTextBecomesErrorEvent ==
    Inner = "stream_search" =>
        /\ \A i \in 1..Len(conn) :
               IsErrorTextLine(conn[i]) =>
                   /\ \E j \in 1..Len(delivered) :
                          delivered[j] = [type |-> "error", msg |-> conn[i].body.text,
                                          code |-> << >>]
                   /\ op = "get_full_response" =>
                          /\ pc = "failed"
                          /\ result = << >>
                          /\ error = <<[type |-> "RuntimeError",
                                        msg |-> "Metaso API error (code None): "
                                                \o conn[i].body.text]>>
        /\ Len(delivered) =
               Cardinality({i \in 1..Len(conn) :
                               IsErrorTextLine(conn[i]) \/ IsEventLine(conn[i])})

\* a fragment, a line of noise, then an ERROR: line behind a 'data: ' prefix
C16_Witness ==
    /\ op = "get_full_response"
    /\ Inner = "stream_search"
    /\ conn = <<Plain(JsonObject(EvTextA)), Plain(Noise), Data(ErrText)>>
    /\ Len(delivered) = 2
    /\ pc = "failed"
    /\ error = <<[type |-> "RuntimeError",
                  msg |-> "Metaso API error (code None): ERROR: upstream"]>>

\* the fragment of a chunk as the claim states it: choices[0].delta.content
\* when present, otherwise the top-level content when present
ClaimedFragment(data) ==
    IF /\ "choices" \in DOMAIN data /\ Len(data.choices) > 0
       /\ "delta" \in DOMAIN data.choices[1]
       /\ "content" \in DOMAIN data.choices[1].delta
    THEN <<data.choices[1].delta.content>>
    ELSE IF "content" \in DOMAIN data THEN <<data.content>>
    ELSE << >>

\* the claimed fragments of the lines up to the first [DONE] line, in order
RECURSIVE ClaimedFragments(_)
ClaimedFragments(lines) ==
    IF lines = << >> \/ IsDoneLine(Head(lines)) THEN << >>
    ELSE (IF AtStart(Head(lines)) /\ Head(lines).body.kind = "json"
             /\ Head(lines).body.jtype = "object"
          THEN ClaimedFragment(Head(lines).body.obj) ELSE << >>)
         \o ClaimedFragments(Tail(lines))

\* C17: stream_completion delivers, for every JSON object line, the content
\* of choices[0].delta when present and otherwise the top-level content when
\* present, and get_full_response returns the fragments concatenated.
C17_FragmentWithFallback ==
    Inner = "stream_completion" =>
        /\ delivered = ClaimedFragments(conn)
        /\ (op = "get_full_response" /\ pc = "done") => result = <<Join(delivered, "")>>

(***************************************************************************)
(* The claims about the payloads (specification SpecPayload).              *)
(***************************************************************************)
SearchBuilt == payload # << >> /\ built_by \in {"search", "stream_search"}
ChatBuilt == payload # << >> /\ built_by = "stream_completion"

\* C5: the question field of a search payload is the first 2000 characters
\* of a prompt longer than 2000 characters, and the prompt itself otherwise.
C5_QuestionTruncated ==
    SearchBuilt =>
        LET q == payload[1].question IN
        /\ Len(prompt) <= 2000 => q = prompt
        /\ Len(prompt) > 2000 =>
               /\ Len(q) = 2000
               /\ \A i \in 1..2000 : q[i] = prompt[i]

\* a prompt of more than 2000 characters was sent by stream_search
C5_Witness ==
    /\ SearchBuilt
    /\ built_by = "stream_search"
    /\ Len(prompt) = 2001
    /\ Len(payload[1].question) = 2000

\* C6: a payload key supplied both by the call and by the client's fixed
\* parameters carries the value of the call, falsy values included.
C6_CallSiteWins ==
    SearchBuilt =>
        \A k \in DOMAIN KeyMapping :
            (call_opts[k] # << >> /\ k \in DOMAIN metaso_params) =>
                /\ KeyMapping[k] \in DOMAIN payload[1]
                /\ payload[1][KeyMapping[k]] = call_opts[k][1]

CoercesToPositive(v) == v # << >> /\ PyInt(v[1]) # << >> /\ PyInt(v[1])[1].i > 0

\* C15: a chat payload has a max_tokens key only if the value supplied
\* coerces to a positive integer; an absent, non-numeric, zero or negative
\* value is dropped.
C15_MaxTokensOnlyIfPositive ==
    ChatBuilt =>
        ("max_tokens" \in DOMAIN payload[1] => CoercesToPositive(call_opts.max_tokens))

(***************************************************************************)
(* The claims about the construction (specification SpecClient).           *)
(***************************************************************************)
\* the secret of the arguments kw cannot be resolved: the variable named by
\* api_key_name is unset or empty and, for a search client, so is
\* METASO_SECRET_KEY
SecretUnresolved(kw) ==
    /\ (kw.api_key_name = << >>
        \/ kw.api_key_name[1] \notin DOMAIN env
        \/ env[kw.api_key_name[1]] \in {<< >>, <<"">>})
    /\ (kw.api_url # << >> /\ ContainsMetaso(kw.api_url[1]))
           => env.METASO_SECRET_KEY \in {<< >>, <<"">>}

\* C8: when the secret cannot be resolved the construction fails (with the
\* ValueError of __init__ whenever __init__ is entered) and no HTTP request
\* is issued.
C8_NoSecretNoRequest ==
    (ctor_kwargs # << >> /\ SecretUnresolved(ctor_kwargs[1])) =>
        /\ client = << >>
        /\ ctor_error \in {<<"ValueError">>, <<"TypeError">>}
        /\ DOMAIN ctor_kwargs[1] \subseteq InitParameters => ctor_error = <<"ValueError">>
        /\ http_log = << >>

\* a search profile, neither its key nor METASO_SECRET_KEY set
C8_Witness ==
    /\ ctor_kwargs # << >>
    /\ DOMAIN ctor_kwargs[1] \subseteq InitParameters
    /\ ctor_kwargs[1].api_url = <<MetasoUrl>>
    /\ env.METASO_API_KEY = << >>
    /\ env.METASO_SECRET_KEY = <<"">>
    /\ ctor_error = <<"ValueError">>
    /\ client = << >>

\* C18: the family of the constructed client is search exactly when the
\* profile's q_key is set, which is the family main.py chooses.
C18_FamilyFollowsQKey ==
    client # << >> =>
        (client[1].api_type = "metaso" <=> IsSearchApi(profile[1]))

\* the value resolved for the profile's api_key_name, << >> if there is none
ResolvedSecret == GetEnv(env, profile[1].api_key_name[1])

\* the request carries Authorization: Bearer <the resolved secret>
HasBearer(req) ==
    /\ "Authorization" \in DOMAIN req.headers
    /\ ResolvedSecret # << >>
    /\ req.headers["Authorization"] = "Bearer " \o ResolvedSecret[1]

\* C19 as stated: every request issued carries Authorization: Bearer <secret>
\* with the secret resolved for the profile's api_key_name.
C19_BearerOnEveryRequest ==
    \A n \in 1..Len(http_log) : HasBearer(http_log[n])

\* C19 as amended: a request of a search client carries the header
\* secret-key with the value of METASO_SECRET_KEY, and no Authorization
\* header, when that variable is set and not empty; every other request
\* carries Authorization: Bearer <secret>.
C19_BearerUnlessSecretKey ==
    \A n \in 1..Len(http_log) :
        LET req == http_log[n] IN
        IF req.method # "stream_completion" /\ TruthyStr(env.METASO_SECRET_KEY)
        THEN /\ "secret-key" \in DOMAIN req.headers
             /\ req.headers["secret-key"] = env.METASO_SECRET_KEY[1]
             /\ "Authorization" \notin DOMAIN req.headers
        ELSE /\ HasBearer(req)
             /\ "secret-key" \notin DOMAIN req.headers

\* a search request while METASO_SECRET_KEY and the profile's key are both set
C19_Witness ==
    /\ Len(http_log) > 0
    /\ http_log[1].method = "stream_search"
    /\ env.METASO_SECRET_KEY = <<"secret-m">>
    /\ env.METASO_API_KEY = <<"key-m">>
    /\ profile[1].id = "metaso-default"
    /\ http_log[1].headers["secret-key"] = "secret-m"

SensitiveHeaders == {"Authorization", "secret-key", "api-key"}

\* the logged value of every credential header is a scheme followed by
\* [MASKED], or [MASKED] alone
Masked(entry) ==
    \A k \in DOMAIN entry.headers \cap SensitiveHeaders :
        entry.headers[k] \in {"Bearer [MASKED]", "[MASKED]"}

\* C20: every request issued has been logged, verbose or not, with its
\* credential headers masked to the scheme and [MASKED] or to [MASKED]
\* alone, and a log file exists only if the client is verbose.
C20_LoggedMasked ==
    /\ Len(stderr_log) = Len(http_log)
    /\ \A n \in 1..Len(http_log) :
           /\ stderr_log[n].url = http_log[n].url
           /\ DOMAIN stderr_log[n].headers = DOMAIN http_log[n].headers
           /\ Masked(stderr_log[n])
    /\ \A n \in 1..Len(disk_log) : Masked(disk_log[n])
    /\ disk_log # << >> => client[1].verbose

(***************************************************************************)
(* The claims about the /api/chat handler (specification SpecWeb).         *)
(***************************************************************************)
ProfileOf(id) == CHOOSE p \in Profiles : p.id = id

C21_FormatInvertible ==
    fmt_block # << >> =>
        \A other \in RefLists :
            BlockOf(fmt_path, other) = fmt_block[1] => other = fmt_list

(***************************************************************************)
(* The claims about the entry points (specification SpecEntry).            *)
(***************************************************************************)
\* a profile with an api_url, an api_key_name, a secret that resolves and,
\* unless it is a search profile by its q_key and by its URL, a model
Healthy(p) ==
    /\ TruthyStr(p.api_url)
    /\ TruthyStr(p.api_key_name)
    /\ \/ TruthyStr(GetEnv(env, p.api_key_name[1]))
       \/ ContainsMetaso(p.api_url[1]) /\ TruthyStr(env.METASO_SECRET_KEY)
    /\ (IsSearchApi(p) /\ ContainsMetaso(p.api_url[1])) \/ TruthyStr(p.model)

\* the last /api/chat request names a healthy profile, carries a prompt and
\* no temperature the handler rejects
HealthyRequest ==
    /\ request # << >>
    /\ request[1].prompt # ""
    /\ \E p \in Profiles :
           /\ request[1].config_id = <<p.id>>
           /\ Healthy(p)
           /\ ~WebTemperature(Get(p, "default_temperature", << >>),
                              request[1].temperature).reject

\* C22: a CLI run or an /api/chat request that names a healthy profile with
\* a prompt gets its client constructed and does not fail before the
\* request to the provider.
C22_HealthyProfileReachesProvider ==
    /\ (ctor_kwargs # << >> /\ Healthy(profile[1])) =>
           /\ client # << >>
           /\ ctor_error = << >>
    /\ HealthyRequest =>
           /\ response[1].error \in {"", "exception"}
           /\ served # << >>
           /\ served[1].profile = request[1].config_id[1]

====
